---- MODULE Spec2Model ----
(***************************************************************************)
(* Model of src/data/generate_test_wall_map.c: the cave map generator.     *)
(*                                                                         *)
(*   GenerateMapCells  = GenerateRandomMapCells; SmoothMapCells;           *)
(*                       FillMapHoles                                      *)
(*   GenerateMapPixels = tile index selection per cell                     *)
(*   main              = GenerateMapCells; GenerateMapPixels; write the    *)
(*                       image; with the paths on which an allocation      *)
(*                       fails and the process exits                       *)
(*                                                                         *)
(* The source fixes the map at 160x160 cells.  The model runs the same     *)
(* code on small maps: the map size is part of the state (it never         *)
(* changes) and is chosen by Init.                                         *)
(***************************************************************************)
EXTENDS Integers, Sequences, FiniteSets, TLC

(* Bounds of the model. *)
MaxW == 6
MaxH == 4
MaxCells == 2

VARIABLES
   MAP_WIDTH,         \* map width in cells
   MAP_HEIGHT,        \* map height in cells
   map_data,          \* flat row-major cell array: 1 = wall, 0 = empty
   accessible_spots,  \* flat row-major array of 2-bit marks (FillMapHoles)
   fill_stack,        \* VisitStack: [s |-> sequence of <<x, y>>, capacity |-> n]
   pc,                \* position in the program
   entry_map,         \* map_data as it was in the initial state
   flood_marks,       \* accessible_spots as it was when the flood loop ended
   buffer,            \* SmoothMapCells: the allocated buffer
   smooth_i,          \* SmoothMapCells: the loop counter i
   tile_pos,          \* GenerateMapPixels: the cell the loops are at (y * width + x)
   tile_index,        \* GenerateMapPixels: the index last handed to WriteTile
   rand_seq,          \* the values rand() returned to GenerateRandomMapCells
   rand_last,         \* the value rand() returned last to GenerateMapPixels
   argv,              \* main: argv[2], the name of the output ("-" is stdout)
   stdout,            \* what has been written to the standard output
   output_file,       \* what has been written to the file named argv[2]
   exit_status        \* the exit status of the process, once it has ended

(* The state of FillMapHoles, of SmoothMapCells and of GenerateMapPixels. *)
fillVars == <<accessible_spots, fill_stack, flood_marks>>

smoothVars == <<buffer, smooth_i>>

tileVars == <<tile_pos, tile_index>>

(* The draws of rand() and the process's output. *)
randVars == <<rand_seq, rand_last>>

ioVars == <<argv, stdout, output_file, exit_status>>

vars == <<MAP_WIDTH, MAP_HEIGHT, map_data, accessible_spots, fill_stack, pc,
          entry_map, flood_marks, buffer, smooth_i, tile_pos, tile_index,
          rand_seq, rand_last, argv, stdout, output_file, exit_status>>

(***************************************************************************)
(* Cells and lookups                                                       *)
(***************************************************************************)
NumCells == MAP_WIDTH * MAP_HEIGHT

Cells == 0 .. (NumCells - 1)

Index(x, y) == y * MAP_WIDTH + x

CellX(c) == c % MAP_WIDTH

CellY(c) == c \div MAP_WIDTH

InBounds(x, y) == x >= 0 /\ x < MAP_WIDTH /\ y >= 0 /\ y < MAP_HEIGHT

(* Mutant of MAP_DATA: the test on the right edge is off by one, so that
   column MAP_WIDTH reads the array (the first cell of the next row). *)
MAP_DATAOffByOne(m, x, y) ==
   IF x < 0 \/ x > MAP_WIDTH \/ y < 0 \/ y >= MAP_HEIGHT
   THEN 1
   ELSE IF Index(x, y) \in DOMAIN m THEN m[Index(x, y)] ELSE 1

(* MAP_DATA macro: out-of-bounds coordinates read as wall. *)
MAP_DATA(m, x, y) ==
   IF x < 0 \/ x >= MAP_WIDTH \/ y < 0 \/ y >= MAP_HEIGHT
   THEN 1
   ELSE m[Index(x, y)]

(* (v & 1) != 0 and (v & 2) != 0 on a 2-bit mark. *)
BitA(v) == v % 2 = 1

BitB(v) == (v \div 2) % 2 = 1

(* v |= 2 *)
OrBit2(v) == IF BitB(v) THEN v ELSE v + 2

(***************************************************************************)
(* VisitStack                                                              *)
(***************************************************************************)
EmptyStack == [s |-> <<>>, capacity |-> 0]

StackSize(st) == Len(st.s)

(* Push: grow the array when full (16 first, then doubling), then append. *)
Push(st, x, y) ==
   LET cap == IF StackSize(st) >= st.capacity
              THEN (IF st.capacity = 0 THEN 16 ELSE st.capacity * 2)
              ELSE st.capacity
   IN  [s |-> Append(st.s, <<x, y>>), capacity |-> cap]

(* Pop: the top item and the stack without it. *)
PopItem(st) == st.s[StackSize(st)]

PopRest(st) == [s |-> SubSeq(st.s, 1, StackSize(st) - 1), capacity |-> st.capacity]

(***************************************************************************)
(* FillMapHoles                                                            *)
(***************************************************************************)
SeedX == MAP_WIDTH \div 2

SeedY == MAP_HEIGHT \div 2

SeedBlock ==
   {Index(SeedX + dx, SeedY + dy) : dx \in {-1, 0, 1}, dy \in {-1, 0, 1}}

(* Mutant of CarveSeed: the last assignment, map_data[y+1][x+1] = 0, is lost. *)
CarveSeedEight(m) ==
   [c \in DOMAIN m |->
      IF c \in SeedBlock \ {Index(SeedX + 1, SeedY + 1)} THEN 0 ELSE m[c]]

(* Lines 186-196: the nine assignments map_data[y+dy][x+dx] = 0. *)
CarveSeed(m) == [c \in DOMAIN m |-> IF c \in SeedBlock THEN 0 ELSE m[c]]

(* Mutant of offsets: the four diagonal directions are lost. *)
offsetsOrthogonal ==
   << <<1, 0>>, <<0, 1>>, <<-1, 0>>, <<0, -1>>,
      <<1, 0>>, <<0, 1>>, <<-1, 0>>, <<0, -1>> >>

offsets ==
   << <<1, 0>>, <<0, 1>>, <<-1, 0>>, <<0, -1>>,
      <<1, 1>>, <<-1, 1>>, <<-1, -1>>, <<1, -1>> >>

(* Mutant of BlockEmpty: only the cell itself is tested. *)
BlockEmptyCentre(m, x, y) == MAP_DATA(m, x, y) = 0

(* Mutant of BlockEmpty: the four diagonal terms are lost. *)
BlockEmptyPlus(m, x, y) ==
   /\ MAP_DATA(m, x,     y    ) = 0
   /\ MAP_DATA(m, x + 1, y    ) = 0
   /\ MAP_DATA(m, x,     y + 1) = 0
   /\ MAP_DATA(m, x - 1, y    ) = 0
   /\ MAP_DATA(m, x,     y - 1) = 0

(* The nine-term test of lines 246-254: the 3x3 block around (x, y) is empty. *)
BlockEmpty(m, x, y) ==
   /\ MAP_DATA(m, x,     y    ) = 0
   /\ MAP_DATA(m, x + 1, y    ) = 0
   /\ MAP_DATA(m, x + 1, y + 1) = 0
   /\ MAP_DATA(m, x,     y + 1) = 0
   /\ MAP_DATA(m, x - 1, y + 1) = 0
   /\ MAP_DATA(m, x - 1, y    ) = 0
   /\ MAP_DATA(m, x - 1, y - 1) = 0
   /\ MAP_DATA(m, x,     y - 1) = 0
   /\ MAP_DATA(m, x + 1, y - 1) = 0

(* Mutant of MarkVisited: the neighbours are not marked. *)
MarkVisitedCentreOnly(acc, x, y) == [acc EXCEPT ![Index(x, y)] = 1]

(* Lines 227-242: mark the popped cell, then |= 2 on its in-bounds neighbours. *)
MarkVisited(acc, x, y) ==
   LET a1 == [acc EXCEPT ![Index(x, y)] = 1]
       IsNeighbor(c) ==
          /\ c # Index(x, y)
          /\ CellX(c) - x \in {-1, 0, 1}
          /\ CellY(c) - y \in {-1, 0, 1}
   IN  [c \in DOMAIN a1 |-> IF IsNeighbor(c) THEN OrBit2(a1[c]) ELSE a1[c]]

(* Lines 244-258: for i = 0..7 push the neighbour whose 3x3 block is empty.
   (offsets is indexed from 1 here.  The stack after step i is bound to t so
   that it is computed once before the next step uses it.) *)
RECURSIVE PushNeighbors(_, _, _, _, _)
PushNeighbors(st, m, x, y, i) ==
   IF i > 8 THEN st
   ELSE LET nx == x + offsets[i][1]
            ny == y + offsets[i][2]
            after == IF BlockEmpty(m, nx, ny) THEN Push(st, nx, ny) ELSE st
        IN  CHOOSE r \in {PushNeighbors(t, m, x, y, i + 1) : t \in {after}} : TRUE

(* Mutant of AlreadyVisited: the guard is lost. *)
NeverVisited(acc, x, y) == FALSE

(* Line 225: the revisit guard. *)
AlreadyVisited(acc, x, y) == BitA(acc[Index(x, y)])

(* Lines 182-204: clear the stack, carve the seed block, push the centre,
   allocate the zeroed mark array. *)
Carve ==
   /\ pc = "fill"
   /\ map_data' = CarveSeed(map_data)
   /\ fill_stack' = Push(EmptyStack, SeedX, SeedY)
   /\ accessible_spots' = [c \in Cells |-> 0]
   /\ pc' = "flood"
   /\ UNCHANGED <<MAP_WIDTH, MAP_HEIGHT, entry_map, flood_marks, smoothVars, tileVars,
                  randVars, ioVars>>

(* Lines 221-259: one iteration of the flood loop. *)
FloodIter ==
   /\ pc = "flood"
   /\ StackSize(fill_stack) > 0
   /\ LET top == PopItem(fill_stack)
          x == top[1]
          y == top[2]
          rest == PopRest(fill_stack)
      IN  IF AlreadyVisited(accessible_spots, x, y)
          THEN /\ fill_stack' = rest
               /\ UNCHANGED accessible_spots
          ELSE /\ accessible_spots' = MarkVisited(accessible_spots, x, y)
               /\ fill_stack' = PushNeighbors(rest, map_data, x, y, 1)
   /\ UNCHANGED <<MAP_WIDTH, MAP_HEIGHT, map_data, pc, entry_map, flood_marks,
                  smoothVars, tileVars,
                  randVars, ioVars>>

(* Mutant of IsHole: a cell with no empty neighbour at all passes too. *)
IsHoleAtLeastThree(m, acc, c) ==
   /\ m[c] = 0
   /\ acc[c] = 0
   /\ MAP_DATA(m, CellX(c) + 1, CellY(c)    ) +
      MAP_DATA(m, CellX(c),     CellY(c) + 1) +
      MAP_DATA(m, CellX(c) - 1, CellY(c)    ) +
      MAP_DATA(m, CellX(c),     CellY(c) - 1) >= 3

(* The test of lines 271-275 on cell c. *)
IsHole(m, acc, c) ==
   /\ m[c] = 0
   /\ acc[c] = 0
   /\ MAP_DATA(m, CellX(c) + 1, CellY(c)    ) +
      MAP_DATA(m, CellX(c),     CellY(c) + 1) +
      MAP_DATA(m, CellX(c) - 1, CellY(c)    ) +
      MAP_DATA(m, CellX(c),     CellY(c) - 1) = 3

(* Lines 266-280: the scan, cell by cell in row-major order from cell c. *)
RECURSIVE HoleScan(_, _, _)
HoleScan(m, acc, c) ==
   IF c >= NumCells THEN acc
   ELSE LET after == IF IsHole(m, acc, c) THEN [acc EXCEPT ![c] = 1] ELSE acc
        IN  CHOOSE r \in {HoleScan(m, a, c + 1) : a \in {after}} : TRUE

(* Mutant of IsSealed: the cell is filled only when the cell to its right
   is a wall. *)
IsSealedNextWall(m, acc, c) ==
   m[c] = 0 /\ acc[c] = 0 /\ MAP_DATA(m, CellX(c) + 1, CellY(c)) = 1

(* Mutant of IsSealed: the test looks at the low mark bit alone. *)
IsSealedBitA(m, acc, c) == m[c] = 0 /\ ~BitA(acc[c])

(* Mutant of IsSealed: the test asks for a wall, map_data[y][x] == 1. *)
IsSealedWall(m, acc, c) == m[c] = 1 /\ acc[c] = 0

(* The test of line 288 on cell c. *)
IsSealed(m, acc, c) == m[c] = 0 /\ acc[c] = 0

(* Mutant of SealScan: the scan also clears every wall cell that carries no
   mark. *)
RECURSIVE SealScanClear(_, _, _)
SealScanClear(m, acc, c) ==
   IF c >= NumCells THEN m
   ELSE LET after == IF acc[c] = 0 THEN [m EXCEPT ![c] = 1 - m[c]] ELSE m
        IN  CHOOSE r \in {SealScanClear(n, acc, c + 1) : n \in {after}} : TRUE

(* Lines 283-291: the scan, cell by cell in row-major order from cell c. *)
RECURSIVE SealScan(_, _, _)
SealScan(m, acc, c) ==
   IF c >= NumCells THEN m
   ELSE LET after == IF IsSealed(m, acc, c) THEN [m EXCEPT ![c] = 1] ELSE m
        IN  CHOOSE r \in {SealScan(n, acc, c + 1) : n \in {after}} : TRUE

(* Lines 260-280: the loop has ended; destroy the stack, keep the holes. *)
HolePass ==
   /\ pc = "flood"
   /\ StackSize(fill_stack) = 0
   /\ fill_stack' = EmptyStack
   /\ flood_marks' = accessible_spots
   /\ accessible_spots' = HoleScan(map_data, accessible_spots, 0)
   /\ pc' = "seal"
   /\ UNCHANGED <<MAP_WIDTH, MAP_HEIGHT, map_data, entry_map, smoothVars, tileVars,
                  randVars, ioVars>>

(* Lines 282-293: fill every empty cell that carries no mark. *)
SealPass ==
   /\ pc = "seal"
   /\ map_data' = SealScan(map_data, accessible_spots, 0)
   /\ pc' = "done"
   /\ UNCHANGED <<MAP_WIDTH, MAP_HEIGHT, accessible_spots, fill_stack,
                  entry_map, flood_marks, smoothVars, tileVars,
                  randVars, ioVars>>

(***************************************************************************)
(* SmoothMapCells                                                          *)
(***************************************************************************)
(* Lines 149-157: the nine MAP_DATA terms added up for cell c. *)
NeighborCount(m, c) ==
   LET x == CellX(c)
       y == CellY(c)
   IN  MAP_DATA(m, x - 1, y - 1) +
       MAP_DATA(m, x,     y - 1) +
       MAP_DATA(m, x + 1, y - 1) +
       MAP_DATA(m, x - 1, y    ) +
       MAP_DATA(m, x,     y    ) +
       MAP_DATA(m, x + 1, y    ) +
       MAP_DATA(m, x - 1, y + 1) +
       MAP_DATA(m, x,     y + 1) +
       MAP_DATA(m, x + 1, y + 1)

(* Mutant of CellValue: a cell with four wall terms keeps what the buffer
   held. *)
CellValueKeepOnTie(count, old) ==
   IF count < 4 THEN 0 ELSE IF count > 4 THEN 1 ELSE old

(* Mutant of CellValue: the threshold is off by one. *)
CellValueOffByOne(count, old) == IF count < 4 THEN 0 ELSE 1

(* Line 158: the value stored at *p, which held old. *)
CellValue(count, old) == IF count <= 4 THEN 0 ELSE 1

(* Lines 144-160: the scan from cell c on; it reads m and writes buf. *)
RECURSIVE SmoothScan(_, _, _)
SmoothScan(m, buf, c) ==
   IF c >= NumCells THEN buf
   ELSE LET after == [buf EXCEPT ![c] = CellValue(NeighborCount(m, c), buf[c])]
        IN  CHOOSE r \in {SmoothScan(m, b, c + 1) : b \in {after}} : TRUE

(* Mutant of SmoothedBuffer: the scan writes into the map it reads. *)
RECURSIVE InPlaceScan(_, _)
InPlaceScan(m, c) ==
   IF c >= NumCells THEN m
   ELSE LET after == [m EXCEPT ![c] = CellValue(NeighborCount(m, c), m[c])]
        IN  CHOOSE r \in {InPlaceScan(n, c + 1) : n \in {after}} : TRUE

SmoothedInPlace(m, buf) == InPlaceScan(m, 0)

(* Lines 144-160: the buffer after one scan of the map m. *)
SmoothedBuffer(m, buf) == SmoothScan(m, buf, 0)

(* Line 135: malloc.  The buffer's first contents are whatever the allocator
   hands out. *)
SmoothAlloc ==
   /\ pc = "smooth"
   /\ \E junk \in {0, 1} : buffer' = [c \in Cells |-> junk]
   /\ smooth_i' = 0
   /\ pc' = "smooth_loop"
   /\ UNCHANGED <<MAP_WIDTH, MAP_HEIGHT, map_data, entry_map, fillVars, tileVars,
                  randVars, ioVars>>

(* Lines 141-167: one iteration of the loop: scan, then memcpy. *)
SmoothIter ==
   /\ pc = "smooth_loop"
   /\ smooth_i < 4
   /\ buffer' = SmoothedBuffer(map_data, buffer)
   /\ map_data' = buffer'
   /\ smooth_i' = smooth_i + 1
   /\ UNCHANGED <<MAP_WIDTH, MAP_HEIGHT, pc, entry_map, fillVars, tileVars,
                  randVars, ioVars>>

(* Lines 141 and 168: the loop ends; free. *)
SmoothExit ==
   /\ pc = "smooth_loop"
   /\ ~(smooth_i < 4)
   /\ buffer' = <<>>
   /\ pc' = "smoothed"
   /\ UNCHANGED <<MAP_WIDTH, MAP_HEIGHT, map_data, smooth_i, entry_map, fillVars,
                  tileVars, randVars, ioVars>>

(***************************************************************************)
(* GenerateMapPixels                                                       *)
(***************************************************************************)
TILE_SIZE == 8

TILE_IMAGE_WIDTH == TILE_SIZE * 16

TILE_IMAGE_HEIGHT == TILE_SIZE * 9

VARIATION_MASK == 112

WALL_TILE_INDEX == 128

(* a & b and a | b on non-negative integers. *)
RECURSIVE BitAnd(_, _)
BitAnd(a, b) ==
   IF a = 0 \/ b = 0 THEN 0
   ELSE (a % 2) * (b % 2) + 2 * BitAnd(a \div 2, b \div 2)

RECURSIVE BitOr(_, _)
BitOr(a, b) ==
   IF a = 0 THEN b
   ELSE IF b = 0 THEN a
   ELSE (IF a % 2 = 1 \/ b % 2 = 1 THEN 1 ELSE 0) + 2 * BitOr(a \div 2, b \div 2)

(* v << k *)
ShiftLeft(v, k) == v * (2 ^ k)

(* Values rand() returns: some with bits below, inside and above the mask. *)
RandDraws == {0, 53, 143, 255, 32767}

(* Mutant of OpenTileIndex: rand() is used without the mask. *)
OpenTileIndexUnmasked(m, x, y, r) ==
   BitOr(BitOr(BitOr(BitOr(ShiftLeft(MAP_DATA(m, x + 1, y    ), 0),
                           ShiftLeft(MAP_DATA(m, x,     y + 1), 1)),
                     ShiftLeft(MAP_DATA(m, x - 1, y    ), 2)),
               ShiftLeft(MAP_DATA(m, x,     y - 1), 3)),
         r)

(* Mutant of OpenTileIndex: the bits of the left and right neighbours are
   swapped. *)
OpenTileIndexSwapped(m, x, y, r) ==
   BitOr(BitOr(BitOr(BitOr(ShiftLeft(MAP_DATA(m, x - 1, y    ), 0),
                           ShiftLeft(MAP_DATA(m, x,     y + 1), 1)),
                     ShiftLeft(MAP_DATA(m, x + 1, y    ), 2)),
               ShiftLeft(MAP_DATA(m, x,     y - 1), 3)),
         BitAnd(r, VARIATION_MASK))

(* Lines 342-346: the index of an empty cell, r being what rand() returned. *)
OpenTileIndex(m, x, y, r) ==
   BitOr(BitOr(BitOr(BitOr(ShiftLeft(MAP_DATA(m, x + 1, y    ), 0),
                           ShiftLeft(MAP_DATA(m, x,     y + 1), 1)),
                     ShiftLeft(MAP_DATA(m, x - 1, y    ), 2)),
               ShiftLeft(MAP_DATA(m, x,     y - 1), 3)),
         BitAnd(r, VARIATION_MASK))

(* WriteTile, lines 308-309: where the tile's pixels start in the tile image. *)
WriteTileTy(t) == (t \div 16) * TILE_SIZE

WriteTileTx(t) == BitAnd(t, 15) * TILE_SIZE

(* Lines 332-350: one iteration of the loops: the index of the cell at
   tile_pos, handed to WriteTile.  rand() is called for an empty cell only. *)
TileStep ==
   /\ pc \in {"done", "pixels"}
   /\ tile_pos < NumCells
   /\ IF map_data[tile_pos] # 0
      THEN /\ tile_index' = WALL_TILE_INDEX
           /\ UNCHANGED rand_last
      ELSE \E r \in RandDraws :
              /\ tile_index' = OpenTileIndex(map_data, CellX(tile_pos), CellY(tile_pos), r)
              /\ rand_last' = r
   /\ tile_pos' = tile_pos + 1
   /\ pc' = IF tile_pos + 1 < NumCells THEN "pixels" ELSE "output"
   /\ UNCHANGED <<MAP_WIDTH, MAP_HEIGHT, map_data, entry_map, fillVars, smoothVars,
                  rand_seq, ioVars>>

(***************************************************************************)
(* The process                                                             *)
(***************************************************************************)
EXIT_FAILURE == 1

(* exit_status while the process runs. *)
NotExited == -1

(* argv[2]: "-" selects the standard output, any other name a file. *)
OutputNames == {"-", "output.png"}

(***************************************************************************)
(* Initial maps                                                            *)
(***************************************************************************)
(* All sets of at most k cell numbers below n. *)
RECURSIVE SmallSets(_, _)
SmallSets(n, k) ==
   IF k = 0 THEN {{}}
   ELSE LET P == SmallSets(n, k - 1)
        IN  P \cup {s \cup {c} : s \in P, c \in 0 .. (n - 1)}

(* Maps of wd x ht cells: those with at most k empty cells, those with at
   most k wall cells, and the map that is wall except for the seed block. *)
InitMaps(wd, ht, k) ==
   LET n == wd * ht
       sx == wd \div 2
       sy == ht \div 2
       blk == {(sy + dy) * wd + (sx + dx) : dx \in {-1, 0, 1}, dy \in {-1, 0, 1}}
   IN  {[c \in 0 .. (n - 1) |-> IF c \in s THEN 0 ELSE 1] : s \in SmallSets(n, k)}
       \cup
       {[c \in 0 .. (n - 1) |-> IF c \in s THEN 1 ELSE 0] : s \in SmallSets(n, k)}
       \cup
       {[c \in 0 .. (n - 1) |-> IF c \in blk THEN 0 ELSE 1]}

(* The map sizes explored: the largest one, and the 5x5 map. *)
MapSizes == {<<MaxW, MaxH>>, <<5, 5>>}

(* The program at position p with one of the maps InitMaps(.., k), nothing
   allocated and every loop at its start. *)
StartWith(p, k) ==
   /\ \E d \in MapSizes :
         /\ MAP_WIDTH = d[1]
         /\ MAP_HEIGHT = d[2]
         /\ map_data \in InitMaps(d[1], d[2], k)
   /\ entry_map = map_data
   /\ accessible_spots = <<>>
   /\ flood_marks = <<>>
   /\ fill_stack = EmptyStack
   /\ buffer = <<>>
   /\ smooth_i = 0
   /\ tile_pos = 0
   /\ tile_index = 0
   /\ rand_seq = <<>>
   /\ rand_last = 0
   /\ argv = "-"
   /\ stdout = <<>>
   /\ output_file = <<>>
   /\ exit_status = NotExited
   /\ pc = p

(***************************************************************************)
(* main, from "Generate map" on, and the paths that end the process        *)
(***************************************************************************)
(* The largest value rand() returns. *)
RAND_MAX == 32767

(* Values rand() returns to GenerateRandomMapCells: the two ends of its range
   and the two values next to the 0.45 threshold. *)
CellDraws == {<<0, RAND_MAX>>, <<14745, 14746>>}

(* Which cells get a value below the threshold: all but at most one, at most
   one, or all but those of the seed block. *)
DrawPatterns(wd, ht) == InitMaps(wd, ht, 1)

(* Line 125: ((float)rand() / (float)RAND_MAX) < 0.45 ? 1 : 0.  The quotient
   is compared as r * 100 < 45 * RAND_MAX; for the values of CellDraws the
   rounding of the float division does not reach the threshold. *)
RandomCell(r) == IF r * 100 < 45 * RAND_MAX THEN 1 ELSE 0

(* Lines 93-98 and 138-139, 202-203: the messages of the failure paths. *)
PushMessage(capacity) ==
   "Not enough memory for " \o ToString(capacity) \o " elements\n"

OutOfMemory == "Out of memory\n"

(* Lines 80-91: the capacity Push asks realloc for when the stack is full. *)
GrownCapacity(st) == IF st.capacity = 0 THEN 16 ELSE st.capacity * 2

(* Lines 244-258: the stack as it is when the push loop first finds it full,
   as a one-element sequence; the empty sequence if the loop never does. *)
RECURSIVE FullStack(_, _, _, _, _)
FullStack(st, m, x, y, i) ==
   IF i > 8 THEN <<>>
   ELSE LET nx == x + offsets[i][1]
            ny == y + offsets[i][2]
        IN  IF ~BlockEmpty(m, nx, ny) THEN FullStack(st, m, x, y, i + 1)
            ELSE IF StackSize(st) >= st.capacity THEN <<st>>
            ELSE CHOOSE r \in {FullStack(t, m, x, y, i + 1) : t \in {Push(st, nx, ny)}} :
                    TRUE

(* exit(EXIT_FAILURE) after a message on the standard output. *)
ExitFailure(message) ==
   /\ stdout' = Append(stdout, message)
   /\ exit_status' = EXIT_FAILURE
   /\ pc' = "exit"
   /\ UNCHANGED <<argv, output_file>>

(* Lines 118-127: every cell is set from one value of rand(). *)
GenerateRandomMapCells ==
   /\ pc = "main"
   /\ \E d \in CellDraws, m \in DrawPatterns(MAP_WIDTH, MAP_HEIGHT) :
         rand_seq' = [i \in 1 .. NumCells |-> IF m[i - 1] = 1 THEN d[1] ELSE d[2]]
   /\ map_data' = [c \in Cells |-> RandomCell(rand_seq'[c + 1])]
   /\ pc' = "smooth"
   /\ UNCHANGED <<MAP_WIDTH, MAP_HEIGHT, entry_map, fillVars, smoothVars, tileVars,
                  rand_last, ioVars>>

(* Lines 135-140: malloc returns NULL. *)
SmoothAllocFail ==
   /\ pc = "smooth"
   /\ ExitFailure(OutOfMemory)
   /\ UNCHANGED <<MAP_WIDTH, MAP_HEIGHT, map_data, entry_map, fillVars, smoothVars,
                  tileVars, randVars>>

(* Lines 299-301: SmoothMapCells has returned, FillMapHoles is called. *)
CallFillMapHoles ==
   /\ pc = "smoothed"
   /\ pc' = "fill"
   /\ UNCHANGED <<MAP_WIDTH, MAP_HEIGHT, map_data, entry_map, fillVars, smoothVars,
                  tileVars, randVars, ioVars>>

(* Lines 182-197: the seed block is carved, then realloc returns NULL in
   Push. *)
CarvePushFail ==
   /\ pc = "fill"
   /\ map_data' = CarveSeed(map_data)
   /\ fill_stack' = [s |-> <<>>, capacity |-> GrownCapacity(EmptyStack)]
   /\ ExitFailure(PushMessage(GrownCapacity(EmptyStack)))
   /\ UNCHANGED <<MAP_WIDTH, MAP_HEIGHT, accessible_spots, entry_map, flood_marks,
                  smoothVars, tileVars, randVars>>

(* Lines 182-204: the seed block is carved and the centre pushed, then calloc
   returns NULL. *)
CarveAllocFail ==
   /\ pc = "fill"
   /\ map_data' = CarveSeed(map_data)
   /\ fill_stack' = Push(EmptyStack, SeedX, SeedY)
   /\ ExitFailure(OutOfMemory)
   /\ UNCHANGED <<MAP_WIDTH, MAP_HEIGHT, accessible_spots, entry_map, flood_marks,
                  smoothVars, tileVars, randVars>>

(* Lines 221-258 with 89-98: an iteration of the flood loop whose push loop
   finds the stack full, and realloc returns NULL. *)
FloodIterFail ==
   /\ pc = "flood"
   /\ StackSize(fill_stack) > 0
   /\ LET top == PopItem(fill_stack)
          x == top[1]
          y == top[2]
          full == FullStack(PopRest(fill_stack), map_data, x, y, 1)
      IN  /\ ~AlreadyVisited(accessible_spots, x, y)
          /\ full # <<>>
          /\ accessible_spots' = MarkVisited(accessible_spots, x, y)
          /\ fill_stack' = [s |-> <<>>, capacity |-> GrownCapacity(full[1])]
          /\ ExitFailure(PushMessage(GrownCapacity(full[1])))
   /\ UNCHANGED <<MAP_WIDTH, MAP_HEIGHT, map_data, entry_map, flood_marks,
                  smoothVars, tileVars, randVars>>

(* Lines 403-422: the image is written to the standard output or to the file
   named argv[2].  A failed write leaves behind whatever the library had
   written; the message goes to stderr (stdout output) or to the standard
   output (file output). *)
WriteOutput ==
   /\ pc = "output"
   /\ \E ok \in BOOLEAN, partial \in {<<>>, <<"partial image">>} :
         IF ok
         THEN /\ IF argv = "-"
                 THEN stdout' = Append(stdout, "image") /\ UNCHANGED output_file
                 ELSE output_file' = <<"image">> /\ UNCHANGED stdout
              /\ exit_status' = 0
         ELSE /\ IF argv = "-"
                 THEN stdout' = stdout \o partial /\ UNCHANGED output_file
                 ELSE /\ output_file' = partial
                      /\ stdout' = Append(stdout, "Error writing " \o argv \o "\n")
              /\ exit_status' = 1
   /\ pc' = "returned"
   /\ UNCHANGED <<MAP_WIDTH, MAP_HEIGHT, map_data, argv, entry_map, fillVars,
                  smoothVars, tileVars, randVars>>

(* FillMapHoles, entered with any of the maps. *)
Init == StartWith("fill", MaxCells)

Next == Carve \/ FloodIter \/ HolePass \/ SealPass

Spec == Init /\ [][Next]_vars

(* FillMapHoles as a sequential program: it always takes its next step. *)
FairInit == StartWith("fill", MaxCells - 1)

FairSpec == FairInit /\ [][Next]_vars /\ WF_vars(Next)

(* SmoothMapCells, entered with any of the maps. *)
SmoothInit == StartWith("smooth", MaxCells - 1)

SmoothNext == SmoothAlloc \/ SmoothIter \/ SmoothExit

SmoothSpec == SmoothInit /\ [][SmoothNext]_vars

(* FillMapHoles followed by GenerateMapPixels. *)
TileInit == StartWith("fill", MaxCells - 1)

TileNext == Carve \/ FloodIter \/ HolePass \/ SealPass \/ TileStep

TileSpec == TileInit /\ [][TileNext]_vars

(* main from "Generate map" on: map_data is static storage, all zero. *)
MainSizes == {<<MaxW, MaxH + 2>>}

MainInit ==
   /\ \E d \in MainSizes : MAP_WIDTH = d[1] /\ MAP_HEIGHT = d[2]
   /\ map_data = [c \in Cells |-> 0]
   /\ entry_map = map_data
   /\ accessible_spots = <<>>
   /\ flood_marks = <<>>
   /\ fill_stack = EmptyStack
   /\ buffer = <<>>
   /\ smooth_i = 0
   /\ tile_pos = 0
   /\ tile_index = 0
   /\ rand_seq = <<>>
   /\ rand_last = 0
   /\ argv \in OutputNames
   /\ stdout = <<>>
   /\ output_file = <<>>
   /\ exit_status = NotExited
   /\ pc = "main"

MainNext ==
   \/ GenerateRandomMapCells
   \/ SmoothAlloc \/ SmoothAllocFail \/ SmoothIter \/ SmoothExit
   \/ CallFillMapHoles
   \/ Carve \/ CarvePushFail \/ CarveAllocFail
   \/ FloodIter \/ FloodIterFail
   \/ HolePass \/ SealPass
   \/ TileStep
   \/ WriteOutput

MainSpec == MainInit /\ [][MainNext]_vars

(* FillMapHoles built for a map too small to hold the seed block: the code
   has no test on MAP_WIDTH and MAP_HEIGHT.  The nine assignments of
   lines 188-196 then fall outside the rows or outside the array (undefined
   behaviour): here an assignment inside the array lands on the cell its
   address is that of, and one outside the array is not followed up. *)
SmallSizes == {d \in (1 .. 3) \X (1 .. 3) : d[1] < 3 \/ d[2] < 3}

SmallInit ==
   /\ \E d \in SmallSizes : MAP_WIDTH = d[1] /\ MAP_HEIGHT = d[2]
   /\ map_data \in [Cells -> {0, 1}]
   /\ entry_map = map_data
   /\ accessible_spots = <<>>
   /\ flood_marks = <<>>
   /\ fill_stack = EmptyStack
   /\ buffer = <<>>
   /\ smooth_i = 0
   /\ tile_pos = 0
   /\ tile_index = 0
   /\ rand_seq = <<>>
   /\ rand_last = 0
   /\ argv = "-"
   /\ stdout = <<>>
   /\ output_file = <<>>
   /\ exit_status = NotExited
   /\ pc = "fill"

SmallSpec == SmallInit /\ [][Next]_vars

(***************************************************************************)
(* Regions                                                                 *)
(***************************************************************************)
OrthAdjacent(c, d) ==
   \/ CellX(c) = CellX(d) /\ CellY(c) - CellY(d) \in {-1, 1}
   \/ CellY(c) = CellY(d) /\ CellX(c) - CellX(d) \in {-1, 1}

MooreAdjacent(c, d) ==
   /\ c # d
   /\ CellX(c) - CellX(d) \in {-1, 0, 1}
   /\ CellY(c) - CellY(d) \in {-1, 0, 1}

(* The cells of S joined to the cells of R by steps between orthogonal
   neighbours that stay in S. *)
RECURSIVE OrthRegion(_, _)
OrthRegion(S, R) ==
   LET more == R \cup {c \in S : \E d \in R : OrthAdjacent(c, d)}
   IN  IF more = R THEN R ELSE OrthRegion(S, more)

(* The same with steps between any of the eight neighbours. *)
RECURSIVE MooreRegion(_, _)
MooreRegion(S, R) ==
   LET more == R \cup {c \in S : \E d \in R : MooreAdjacent(c, d)}
   IN  IF more = R THEN R ELSE MooreRegion(S, more)

SeedCell == Index(SeedX, SeedY)

OpenCells == {c \in Cells : map_data[c] = 0}

FloodEnded == pc = "flood" /\ StackSize(fill_stack) = 0

(* Cells marked with bit 1 so far. *)
VisitedCells == {c \in DOMAIN accessible_spots : BitA(accessible_spots[c])}

(* Cells the flood fill left a mark on (either bit). *)
BrushCells == {c \in DOMAIN flood_marks : flood_marks[c] # 0}

(* Cells the hole pass marked. *)
HoleCells ==
   {c \in DOMAIN flood_marks : flood_marks[c] = 0 /\ accessible_spots[c] # 0}

(* The map as the seal pass found it. *)
CarvedMap == CarveSeed(entry_map)

(***************************************************************************)
(* C1: after FillMapHoles, every open cell outside the open region of the  *)
(* seed centre is an isolated single cell: it has no open orthogonal       *)
(* neighbour, so no disconnected open group of two or more cells remains.  *)
(***************************************************************************)
C1_NoDisconnectedGroup ==
   pc = "done" =>
      LET main == OrthRegion(OpenCells, {SeedCell})
      IN  \A c \in OpenCells \ main :
             \A d \in OpenCells : ~OrthAdjacent(c, d)

(***************************************************************************)
(* C2: after FillMapHoles, the open cells that the hole pass did not mark  *)
(* are exactly the cells the flood fill marked, and they form one          *)
(* orthogonally connected region that contains the seed centre.            *)
(***************************************************************************)
C2_BrushRegionConnected ==
   pc = "done" =>
      LET rest == OpenCells \ HoleCells
      IN  /\ rest = BrushCells
          /\ SeedCell \in rest
          /\ OrthRegion(rest, {SeedCell}) = rest

(* A flood that painted beyond the seed block, with a hole kept and a cell
   sealed. *)
C2_Witness ==
   /\ pc = "done"
   /\ Cardinality(BrushCells) > 9
   /\ HoleCells # {}
   /\ \E c \in Cells : CarvedMap[c] = 0 /\ map_data[c] = 1

(***************************************************************************)
(* C3 as stated: after the seal pass every cell that is still open has     *)
(* accessibility bit A set.                                                *)
(***************************************************************************)
C3_OpenHasBitA ==
   pc = "done" => \A c \in OpenCells : BitA(accessible_spots[c])

(***************************************************************************)
(* C3 amended: the seal pass turns into wall exactly the open cells with   *)
(* both accessibility bits unset, so after it every cell that is still     *)
(* open has bit A or bit B set.                                            *)
(***************************************************************************)
C3_OpenHasAnyBit ==
   pc = "done" =>
      \A c \in Cells :
         /\ map_data[c] = 0 => accessible_spots[c] # 0
         /\ map_data[c] = 1 <=> (CarvedMap[c] = 1 \/ accessible_spots[c] = 0)

(* The seal pass has sealed a cell and has left open a cell with bit B only. *)
C3_Witness ==
   /\ pc = "done"
   /\ \E c \in Cells : CarvedMap[c] = 0 /\ map_data[c] = 1
   /\ \E c \in OpenCells : ~BitA(accessible_spots[c]) /\ BitB(accessible_spots[c])

(***************************************************************************)
(* C4 as stated: when FillMapHoles completes, the nine cells of the seed   *)
(* block are open and all nine have accessibility bit A set.               *)
(***************************************************************************)
C4_SeedBlockBitA ==
   pc = "done" =>
      \A c \in SeedBlock : map_data[c] = 0 /\ BitA(accessible_spots[c])

(***************************************************************************)
(* C4 amended: when FillMapHoles completes, the nine cells of the seed     *)
(* block are open, the centre has bit A set, and each of the nine has bit  *)
(* A or bit B set.                                                         *)
(***************************************************************************)
C4_SeedBlockOpen ==
   pc = "done" =>
      /\ BitA(accessible_spots[SeedCell])
      /\ \A c \in SeedBlock : map_data[c] = 0 /\ accessible_spots[c] # 0

(* The run started with a wall in the block and ends with a block cell that
   carries bit B only. *)
C4_Witness ==
   /\ pc = "done"
   /\ \E c \in SeedBlock : entry_map[c] = 1
   /\ \E c \in SeedBlock : ~BitA(accessible_spots[c])

(***************************************************************************)
(* C5: when the flood loop ends, the cells with bit A set are exactly the  *)
(* cells joined to the seed centre by a chain of 8-neighbour steps through *)
(* centres of all-open 3x3 blocks.                                         *)
(***************************************************************************)
ThickCentres == {c \in Cells : BlockEmpty(map_data, CellX(c), CellY(c))}

ThickRegion ==
   IF SeedCell \in ThickCentres THEN MooreRegion(ThickCentres, {SeedCell}) ELSE {}

C5_VisitedIsThickRegion == FloodEnded => VisitedCells = ThickRegion

(* The flood ended having visited cells beyond the seed centre and having
   left unvisited the centre of an all-open block that no chain reaches. *)
C5_Witness ==
   /\ FloodEnded
   /\ Cardinality(VisitedCells) >= 2
   /\ ThickCentres \ VisitedCells # {}

(***************************************************************************)
(* C6: on the 5x5 map that is wall except for the open 3x3 centre block,   *)
(* FillMapHoles leaves exactly those nine cells open and the sixteen border *)
(* cells wall, and the centre (2,2) has bit A set.                         *)
(***************************************************************************)
CentreBlockOnly == [c \in Cells |-> IF c \in SeedBlock THEN 0 ELSE 1]

IsScenario == MAP_WIDTH = 5 /\ MAP_HEIGHT = 5 /\ entry_map = CentreBlockOnly

C6_Scenario ==
   (pc = "done" /\ IsScenario) =>
      /\ map_data = CentreBlockOnly
      /\ Cardinality(OpenCells) = 9
      /\ BitA(accessible_spots[Index(2, 2)])

C6_Witness == pc = "done" /\ IsScenario /\ SeedCell = Index(2, 2)

(***************************************************************************)
(* C7: the flood loop terminates: from every state of the loop the stack   *)
(* eventually becomes empty, because every iteration either shrinks the    *)
(* stack or marks a cell that was not marked before, and a marked cell     *)
(* stays marked.                                                           *)
(***************************************************************************)
C7_FloodTerminates ==
   /\ (pc = "flood") ~> (StackSize(fill_stack) = 0)
   /\ [][(pc = "flood" /\ pc' = "flood") =>
            /\ VisitedCells \subseteq VisitedCells'
            /\ \/ StackSize(fill_stack') < StackSize(fill_stack)
               \/ VisitedCells' # VisitedCells]_vars

(* The loop has ended after visiting several cells: some were pushed again
   by their neighbours and discarded when popped. *)
C7_Witness == FloodEnded /\ Cardinality(VisitedCells) >= 4

(***************************************************************************)
(* Smoothing, as the rule states it                                        *)
(***************************************************************************)
(* Wall cells among the nine cells of the 3x3 block around c in the map m,
   out-of-bounds cells counted as wall. *)
WallsAround(m, c) ==
   Cardinality({d \in {-1, 0, 1} \X {-1, 0, 1} :
                   MAP_DATA(m, CellX(c) + d[1], CellY(c) + d[2]) = 1})

MajorityPass(m) == [c \in Cells |-> IF WallsAround(m, c) > 4 THEN 1 ELSE 0]

IsFixedPoint(m) == MajorityPass(m) = m

IsSmoothStep == pc = "smooth_loop" /\ smooth_i' = smooth_i + 1

(***************************************************************************)
(* C8: one smoothing pass sets every cell to wall iff more than 4 of the   *)
(* nine cells of its 3x3 block were wall in the map as it was before the   *)
(* pass (so no new value depends on a value written in the same pass), and *)
(* SmoothMapCells returns after exactly 4 passes.                          *)
(***************************************************************************)
C8_SmoothPass ==
   /\ [][IsSmoothStep => map_data' = MajorityPass(map_data)]_vars
   /\ [](pc = "smoothed" => smooth_i = 4)

(* Four passes were made, the map changed, and a pass that wrote into the map
   it reads would have produced another map from the first one. *)
C8_Witness ==
   /\ pc = "smoothed"
   /\ smooth_i = 4
   /\ map_data # entry_map
   /\ InPlaceScan(entry_map, 0) # MajorityPass(entry_map)

(***************************************************************************)
(* C9: when the map after N passes is a fixed point of one smoothing pass, *)
(* pass N+1 leaves it as it is, whatever the buffer held: N+1 passes yield *)
(* the same map as N passes.                                               *)
(***************************************************************************)
C9_FixedPointStays ==
   [][(IsSmoothStep /\ IsFixedPoint(map_data)) => map_data' = map_data]_vars

(* The first pass changed the map into a fixed point with walls and empty
   cells, and the three passes after it have run on that fixed point. *)
C9_Witness ==
   /\ pc = "smoothed"
   /\ smooth_i = 4
   /\ map_data # entry_map
   /\ map_data = MajorityPass(entry_map)
   /\ IsFixedPoint(map_data)
   /\ \E c, d \in Cells : map_data[c] = 0 /\ map_data[d] = 1

(***************************************************************************)
(* Tile indices                                                            *)
(***************************************************************************)
(* The cell whose index GenerateMapPixels computed last. *)
TileCell == tile_pos - 1

TileComputed == pc \in {"pixels", "output"}

WallAt(x, y) == IF InBounds(x, y) THEN map_data[Index(x, y)] = 1 ELSE TRUE

(* bit0 = right, bit1 = down, bit2 = left, bit3 = up. *)
AdjacencyBits(c) ==
   (IF WallAt(CellX(c) + 1, CellY(c)) THEN 1 ELSE 0) +
   (IF WallAt(CellX(c), CellY(c) + 1) THEN 2 ELSE 0) +
   (IF WallAt(CellX(c) - 1, CellY(c)) THEN 4 ELSE 0) +
   (IF WallAt(CellX(c), CellY(c) - 1) THEN 8 ELSE 0)

(* Wall to the right and below, open to the left and above. *)
IsCornerCase(c) ==
   /\ map_data[c] = 0
   /\ WallAt(CellX(c) + 1, CellY(c))
   /\ WallAt(CellX(c), CellY(c) + 1)
   /\ ~WallAt(CellX(c) - 1, CellY(c))
   /\ ~WallAt(CellX(c), CellY(c) - 1)

(***************************************************************************)
(* C10: a wall cell gets tile index 0x80; an open cell gets an index whose *)
(* low four bits are the wall states of its right, lower, left and upper   *)
(* neighbours (out of bounds = wall), whose other set bits lie in 0x70,    *)
(* and whose bit 7 is clear, whatever rand() returned; so the cell with    *)
(* walls right and below only has low nibble 0011, and every index         *)
(* addresses a tile inside the 16x9 tile image.                            *)
(***************************************************************************)
C10_TileIndex ==
   TileComputed =>
      /\ map_data[TileCell] = 1 => tile_index = 128
      /\ map_data[TileCell] = 0 =>
            /\ tile_index % 16 = AdjacencyBits(TileCell)
            /\ (tile_index \div 16) \in 0 .. 7
            /\ tile_index - (tile_index % 16) \in {16 * v : v \in 0 .. 7}
      /\ IsCornerCase(TileCell) => tile_index % 16 = 3
      /\ WriteTileTx(tile_index) + TILE_SIZE <= TILE_IMAGE_WIDTH
      /\ WriteTileTy(tile_index) + TILE_SIZE <= TILE_IMAGE_HEIGHT

(* The index of a cell with walls right and below only was computed, with
   variation bits set. *)
C10_Witness ==
   /\ TileComputed
   /\ IsCornerCase(TileCell)
   /\ tile_index > 16

(***************************************************************************)
(* The pipeline as a function of the draws                                 *)
(***************************************************************************)
(* GenerateRandomMapCells on the draws seq. *)
RandomMap(seq) == [c \in Cells |-> RandomCell(seq[c + 1])]

(* n passes of SmoothMapCells' loop on the map m with the buffer buf. *)
RECURSIVE SmoothPasses(_, _, _)
SmoothPasses(m, buf, n) ==
   IF n = 0 THEN m
   ELSE CHOOSE r \in {SmoothPasses(b, b, n - 1) : b \in {SmoothedBuffer(m, buf)}} : TRUE

(* The flood loop run to its end from the marks acc and the stack st. *)
RECURSIVE FloodRun(_, _, _)
FloodRun(m, acc, st) ==
   IF StackSize(st) = 0 THEN acc
   ELSE LET top == PopItem(st)
            rest == PopRest(st)
            visited == AlreadyVisited(acc, top[1], top[2])
            acc2 == IF visited THEN acc ELSE MarkVisited(acc, top[1], top[2])
            st2 == IF visited THEN rest
                   ELSE PushNeighbors(rest, m, top[1], top[2], 1)
        IN  CHOOSE r \in {FloodRun(m, a, t) : a \in {acc2}, t \in {st2}} : TRUE

(* FillMapHoles on the map m. *)
FilledMap(m) ==
   LET carved == CarveSeed(m)
       flood == FloodRun(carved, [c \in Cells |-> 0], Push(EmptyStack, SeedX, SeedY))
       marks == HoleScan(carved, flood, 0)
   IN  SealScan(carved, marks, 0)

(* GenerateMapCells on the draws seq, the buffer's first contents being 0. *)
GeneratedMap(seq) ==
   FilledMap(SmoothPasses(RandomMap(seq), [c \in Cells |-> 0], 4))

(* Lines 336-346: the index of cell c of the map m, r being the value rand()
   returned last. *)
TileIndexOf(m, c, r) ==
   IF m[c] # 0 THEN WALL_TILE_INDEX ELSE OpenTileIndex(m, CellX(c), CellY(c), r)

(***************************************************************************)
(* C11: the occupancy grid GenerateMapCells leaves and every tile index    *)
(* GenerateMapPixels hands to WriteTile are functions of the map size and  *)
(* of the values rand() returned, and of nothing else: whatever the        *)
(* allocator left in the smoothing buffer and wherever the output goes,    *)
(* the grid is GeneratedMap(rand_seq) and the index of a cell is           *)
(* TileIndexOf that grid, the cell and the last draw.  Two runs with the   *)
(* same size and the same draws therefore agree on both.                   *)
(***************************************************************************)
C11_Deterministic ==
   /\ pc = "smooth" => map_data = RandomMap(rand_seq)
   /\ pc \in {"done", "output"} => map_data = GeneratedMap(rand_seq)
   /\ pc \in {"pixels", "output", "returned"} =>
         tile_index = TileIndexOf(map_data, tile_pos - 1, rand_last)

(* A run ended with its image written, from draws of both kinds, on a map
   that has open cells outside the seed block and wall cells, the last tile
   index computed being that of an open cell. *)
C11_Witness ==
   /\ pc = "returned"
   /\ exit_status = 0
   /\ \E i, j \in DOMAIN rand_seq : RandomCell(rand_seq[i]) # RandomCell(rand_seq[j])
   /\ \E c \in Cells \ SeedBlock : map_data[c] = 0
   /\ \E c \in Cells : map_data[c] = 1
   /\ rand_last # 0

(***************************************************************************)
(* C12: the seal pass run a second time on the grid it produced, with the  *)
(* same accessibility map, changes nothing.  It is checked on every grid   *)
(* and accessibility map FillMapHoles goes through, the half-marked ones   *)
(* of the flood loop included.                                             *)
(***************************************************************************)
C12_SealIdempotent ==
   pc \in {"flood", "seal", "done"} =>
      LET once == SealScan(map_data, accessible_spots, 0)
      IN  SealScan(once, accessible_spots, 0) = once

(* The seal pass would fill two cells that lie side by side. *)
C12_Witness ==
   /\ pc \in {"flood", "seal"}
   /\ \E c \in Cells :
         /\ CellX(c) + 1 < MAP_WIDTH
         /\ IsSealed(map_data, accessible_spots, c)
         /\ IsSealed(map_data, accessible_spots, c + 1)
   /\ SealScan(map_data, accessible_spots, 0) # map_data

(***************************************************************************)
(* C13: a lookup through MAP_DATA at a coordinate outside the grid gives   *)
(* wall (1), whatever the array holds at the place the coordinate would    *)
(* index; a lookup at a coordinate inside the grid gives the stored cell.  *)
(* The coordinates range over the grid and two cells beyond each edge,     *)
(* which covers every lookup the program makes.                            *)
(***************************************************************************)
C13_Lookup ==
   \A x \in -2 .. (MAP_WIDTH + 1), y \in -2 .. (MAP_HEIGHT + 1) :
      MAP_DATA(map_data, x, y) =
         IF InBounds(x, y) THEN map_data[y * MAP_WIDTH + x] ELSE 1

(* The flood loop is about to look beyond the right edge from a centre in
   column MAP_WIDTH - 2, and the array cell that follows the centre's row
   holds 0. *)
C13_Witness ==
   /\ pc = "flood"
   /\ StackSize(fill_stack) > 0
   /\ LET top == PopItem(fill_stack)
      IN  /\ top[1] = MAP_WIDTH - 2
          /\ ~AlreadyVisited(accessible_spots, top[1], top[2])
          /\ map_data[Index(MAP_WIDTH, top[2])] = 0
          /\ MAP_DATA(map_data, MAP_WIDTH, top[2]) = 1

(***************************************************************************)
(* C14: when an allocation fails (realloc in Push, malloc of the smoothing *)
(* buffer, calloc of the accessibility map) the process ends with a        *)
(* nonzero exit status before the output is written, and nothing has been  *)
(* written to the output: not to the file named argv[2], and not to the    *)
(* standard output when argv[2] is "-".                                    *)
(***************************************************************************)
C14_NoOutputOnAllocFailure ==
   pc = "exit" =>
      /\ exit_status # 0
      /\ tile_pos = 0
      /\ output_file = <<>>
      /\ argv = "-" => stdout = <<>>

C16_GridFrame ==
   [][/\ pc = "flood" => map_data' = map_data
      /\ pc = "seal" =>
            \A c \in Cells :
               map_data'[c] # map_data[c] => map_data[c] = 0 /\ map_data'[c] = 1]_vars

(* The flood loop went beyond the seed block, the hole pass marked a cell
   and the seal pass filled one. *)
C16_Witness ==
   /\ pc = "done"
   /\ Cardinality(BrushCells) > 9
   /\ HoleCells # {}
   /\ map_data # CarvedMap

(* The open cells of the grid next to c, left, right, above or below. *)
OpenOrthNeighbors(c) == {d \in Cells : OrthAdjacent(c, d) /\ map_data[d] = 0}

DeadEndAfterFlood(c) ==
   /\ map_data[c] = 0
   /\ ~BitA(flood_marks[c])
   /\ ~BitB(flood_marks[c])
   /\ Cardinality(OpenOrthNeighbors(c)) = 1

(* The scan of lines 266-280 made from the last cell down to cell c = 0. *)
RECURSIVE HoleScanReverse(_, _, _)
HoleScanReverse(m, acc, c) ==
   IF c < 0 THEN acc
   ELSE LET after == IF IsHole(m, acc, c) THEN [acc EXCEPT ![c] = 1] ELSE acc
        IN  CHOOSE r \in {HoleScanReverse(m, a, c - 1) : a \in {after}} : TRUE

(***************************************************************************)
(* C17: the hole pass sets bit A on a cell exactly when, after the flood   *)
(* fill, the cell is open, has neither bit A nor bit B, and exactly one of *)
(* its four orthogonal neighbours is an open cell of the grid (a           *)
(* neighbour outside the grid counts as wall); every other cell keeps the  *)
(* marks the flood fill gave it; and scanning the cells in the opposite    *)
(* order gives the same marks.                                             *)
(***************************************************************************)
C17_HolePass ==
   [](pc = "seal" =>
         /\ \A c \in Cells :
               accessible_spots[c] = IF DeadEndAfterFlood(c) THEN 1 ELSE flood_marks[c]
         /\ accessible_spots = HoleScanReverse(map_data, flood_marks, NumCells - 1))

(* The hole pass marked a dead end, passed over an unmarked open cell that
   is none, and left flood marks of both kinds in place. *)
C17_Witness ==
   /\ pc = "seal"
   /\ \E c \in Cells : DeadEndAfterFlood(c)
   /\ \E c \in Cells :
         map_data[c] = 0 /\ flood_marks[c] = 0 /\ accessible_spots[c] = 0
   /\ \E c, d \in Cells : accessible_spots[c] = 2 /\ accessible_spots[d] = 3

(* The cell at (x, y) is a cell of the grid and open. *)
OpenAt(x, y) == InBounds(x, y) /\ map_data[Index(x, y)] = 0

(* Cell c is open but the open stretch through it is less than three cells
   long along its row or along its column. *)
InNarrowGap(c) ==
   LET x == CellX(c)
       y == CellY(c)
   IN  /\ map_data[c] = 0
       /\ \/ ~\E k \in -2 .. 0 : \A j \in 0 .. 2 : OpenAt(x + k + j, y)
          \/ ~\E k \in -2 .. 0 : \A j \in 0 .. 2 : OpenAt(x, y + k + j)

(***************************************************************************)
(* C18: at every step of the flood loop, its end included, every cell      *)
(* whose bit A is set is the centre of a 3x3 block of nine open cells, all *)
(* of them inside the grid; so no cell of a gap less than three cells wide *)
(* ever gets bit A.                                                        *)
(***************************************************************************)
C18_VisitedHasOpenBlock ==
   pc = "flood" =>
      /\ \A c \in VisitedCells :
            \A dx \in {-1, 0, 1}, dy \in {-1, 0, 1} :
               OpenAt(CellX(c) + dx, CellY(c) + dy)
      /\ \A c \in VisitedCells : ~InNarrowGap(c)

(* The loop has ended after visiting three centres or more, and an open cell
   of a narrow gap lies next to a cell the fill marked. *)
C18_Witness ==
   /\ FloodEnded
   /\ Cardinality(VisitedCells) >= 3
   /\ \E c \in Cells :
         /\ InNarrowGap(c)
         /\ \E d \in Cells : OrthAdjacent(c, d) /\ accessible_spots[d] # 0

(* The cells around (x, y), the cell itself left out, that lie in the grid. *)
NeighborCells(x, y) ==
   {c \in Cells : /\ c # Index(x, y)
                  /\ CellX(c) - x \in {-1, 0, 1}
                  /\ CellY(c) - y \in {-1, 0, 1}}

(***************************************************************************)
(* C19: on a grid of at least 3x3 cells every coordinate on the stack,     *)
(* hence every coordinate pushed or popped, has 1 <= x <= W-2 and          *)
(* 1 <= y <= H-2, and its index y*W+x is a cell of the accessibility map;  *)
(* the stack never holds more items than its capacity; every iteration of  *)
(* the flood loop pops from a stack that is not empty; and when it marks   *)
(* the popped cell, all eight neighbours are in the grid and get bit B:    *)
(* the bounds test skips none.                                             *)
(***************************************************************************)
C19_StackSafety ==
   /\ [](/\ MAP_WIDTH >= 3 /\ MAP_HEIGHT >= 3
         /\ StackSize(fill_stack) <= fill_stack.capacity
         /\ \A i \in 1 .. StackSize(fill_stack) :
               LET x == fill_stack.s[i][1]
                   y == fill_stack.s[i][2]
               IN  /\ 1 <= x /\ x <= MAP_WIDTH - 2
                   /\ 1 <= y /\ y <= MAP_HEIGHT - 2
                   /\ y * MAP_WIDTH + x \in 0 .. (MAP_WIDTH * MAP_HEIGHT - 1))
   /\ [][(pc = "flood" /\ pc' = "flood") =>
            /\ StackSize(fill_stack) > 0
            /\ LET x == PopItem(fill_stack)[1]
                   y == PopItem(fill_stack)[2]
               IN  accessible_spots' # accessible_spots =>
                      /\ \A dx \in {-1, 0, 1}, dy \in {-1, 0, 1} :
                            InBounds(x + dx, y + dy)
                      /\ Cardinality(NeighborCells(x, y)) = 8
                      /\ \A c \in NeighborCells(x, y) : BitB(accessible_spots'[c])]_vars

(* The stack has grown beyond its first 16 items, with a centre next to the
   left edge and one next to the bottom edge on it. *)
C19_Witness ==
   /\ pc = "flood"
   /\ StackSize(fill_stack) > 16
   /\ fill_stack.capacity = 32
   /\ \E i, j \in 1 .. StackSize(fill_stack) :
         /\ fill_stack.s[i][1] = 1
         /\ fill_stack.s[j][2] = MAP_HEIGHT - 2

(* Cell c lies in the 3x3 block around a centre the flood loop visited. *)
InVisitedBlock(c) ==
   \E d \in Cells :
      /\ BitA(flood_marks[d])
      /\ CellX(c) - CellX(d) \in {-1, 0, 1}
      /\ CellY(c) - CellY(d) \in {-1, 0, 1}

(***************************************************************************)
(* C20: when FillMapHoles is done a cell is open exactly if it was open    *)
(* after the seed carve and either lies in the 3x3 block around a centre   *)
(* the flood loop visited, which is the same as carrying bit A or bit B    *)
(* from the flood loop, or passed the hole test; every cell the flood loop *)
(* gave bit B was open and is still open, with or without bit A; and no    *)
(* cell outside the seed block ever goes from wall to open.                *)
(***************************************************************************)
C20_OpenCells ==
   [](/\ \A c \in Cells \ SeedBlock : entry_map[c] = 1 => map_data[c] = 1
      /\ pc = "done" =>
            \A c \in Cells :
               /\ InVisitedBlock(c) <=> flood_marks[c] # 0
               /\ map_data[c] = 0 <=>
                     /\ CarvedMap[c] = 0
                     /\ InVisitedBlock(c) \/ IsHole(CarvedMap, flood_marks, c)
               /\ BitB(flood_marks[c]) => CarvedMap[c] = 0 /\ map_data[c] = 0)

(* FillMapHoles is done: the carve opened a wall of the seed block, a cell
   with bit B alone is open, a cell passed the hole test and a cell was
   filled. *)
C20_Witness ==
   /\ pc = "done"
   /\ \E c \in SeedBlock : entry_map[c] = 1
   /\ \E c \in Cells : flood_marks[c] = 2 /\ map_data[c] = 0
   /\ \E c \in Cells : IsHole(CarvedMap, flood_marks, c) /\ map_data[c] = 0
   /\ \E c \in Cells : CarvedMap[c] = 0 /\ map_data[c] = 1

====
